---- MODULE Spec2Model ----
(***************************************************************************)
(* Model of QuizTGEapp.py: the question store reader                       *)
(* (DatabaseManager.load_questions), the sampling routine                  *)
(* (QuestionManager.prepare_questions), the scoring function               *)
(* (PerformanceEvaluator.evaluate_performance) and the quiz session        *)
(* (QuizApplication) driven by the Tk events the program wires to it.      *)
(***************************************************************************)
EXTENDS Integers, Sequences, FiniteSets, Bags, TLC

(***************************************************************************)
(* Python floats.  The program computes int(total * 0.6) and               *)
(* (correct / total) * 100 on IEEE-754 binary64 values, so the model       *)
(* carries a non-negative double as [bits, exp]: bits is the 53-bit        *)
(* significand, most significant bit first (always 1), exp the exponent of *)
(* that leading bit; zero is the empty significand.  Every operation       *)
(* rounds to nearest, ties to even, as the hardware does.                  *)
(***************************************************************************)
DoublePrecision == 53

FZero == [bits |-> <<>>, exp |-> 0]

RECURSIVE Pow2(_)
Pow2(n) == IF n = 0 THEN 1 ELSE 2 * Pow2(n - 1)

RECURSIVE NatBits(_)
\* binary digits of n, most significant first (<<>> for 0)
NatBits(n) == IF n = 0 THEN <<>> ELSE Append(NatBits(n \div 2), n % 2)

RECURSIVE BitsNat(_)
\* value of a short sequence of binary digits, most significant first
BitsNat(b) ==
    IF b = <<>> THEN 0
    ELSE 2 * BitsNat(SubSeq(b, 1, Len(b) - 1)) + b[Len(b)]

Reverse(s) == [i \in 1..Len(s) |-> s[Len(s) + 1 - i]]

RECURSIVE LongDiv(_, _, _, _)
\* n further digits of r / t (r < 2t), appended to acc; the last remainder
\* tells whether the quotient was cut short
LongDiv(r, t, n, acc) ==
    IF n = 0 THEN [q |-> acc, inexact |-> (r # 0)]
    ELSE LET bit == IF r >= t THEN 1 ELSE 0
         IN  LongDiv(2 * (r - bit * t), t, n - 1, Append(acc, bit))

RECURSIVE Increment(_)
\* b + 1 on binary digits; a carry out of the top digit lengthens the result
Increment(b) ==
    IF b = <<>> THEN <<1>>
    ELSE IF b[Len(b)] = 0 THEN [b EXCEPT ![Len(b)] = 1]
    ELSE Append(Increment(SubSeq(b, 1, Len(b) - 1)), 0)

AnyOne(b) == \E i \in 1..Len(b) : b[i] = 1

\* Round an exact value with significand digits b (leading 1), exponent e and
\* possibly a non-zero tail below the digits, to nearest-even binary64.
RoundDouble(b, e, tail) ==
    IF Len(b) <= DoublePrecision
    THEN [bits |-> b \o [i \in 1..(DoublePrecision - Len(b)) |-> 0], exp |-> e]
    ELSE LET kept   == SubSeq(b, 1, DoublePrecision)
             guard  == b[DoublePrecision + 1]
             sticky == tail \/ AnyOne(SubSeq(b, DoublePrecision + 2, Len(b)))
             up     == guard = 1 /\ (sticky \/ kept[DoublePrecision] = 1)
             inc    == Increment(kept)
         IN  IF ~up THEN [bits |-> kept, exp |-> e]
             ELSE IF Len(inc) > DoublePrecision
                  THEN [bits |-> SubSeq(inc, 1, DoublePrecision), exp |-> e + 1]
                  ELSE [bits |-> inc, exp |-> e]

RECURSIVE ScaleUp(_, _)
\* least k with c * 2^k >= t
ScaleUp(c, t) == IF c >= t THEN 0 ELSE 1 + ScaleUp(2 * c, t)

RECURSIVE ScaleDown(_, _)
\* greatest j with t * 2^j <= c   (c >= t)
ScaleDown(c, t) == IF c < 2 * t THEN 0 ELSE 1 + ScaleDown(c, 2 * t)

\* the double nearest to c / t   (Python: c / t on ints, and decimal literals)
FDiv(c, t) ==
    IF c = 0 THEN FZero
    ELSE LET k == ScaleUp(c, t)
             j == ScaleDown(c, t)
             d == LongDiv(c * Pow2(k), t * Pow2(j), DoublePrecision + 1, <<>>)
         IN  RoundDouble(d.q, j - k, d.inexact)

RECURSIVE MulDigits(_, _, _, _)
\* digits of x (least significant first) times n, with carry
MulDigits(x, n, carry, acc) ==
    IF x = <<>> THEN [low |-> acc, carry |-> carry]
    ELSE LET v == Head(x) * n + carry
         IN  MulDigits(Tail(x), n, v \div 2, Append(acc, v % 2))

\* the double nearest to x * n, n a non-negative int (Python: float * int)
FMulNat(x, n) ==
    IF x.bits = <<>> \/ n = 0 THEN FZero
    ELSE LET m    == MulDigits(Reverse(x.bits), n, 0, <<>>)
             high == NatBits(m.carry)
         IN  RoundDouble(high \o Reverse(m.low), x.exp + Len(high), FALSE)

\* int(x): truncation of a non-negative double below 2^31
FTrunc(x) ==
    IF x.bits = <<>> \/ x.exp < 0 THEN 0
    ELSE BitsNat(SubSeq(x.bits, 1, x.exp + 1))

\* x >= n for an int n (Python compares float and int exactly)
FGeqNat(x, n) == FTrunc(x) >= n


(***************************************************************************)
(* Configuration and data model.                                           *)
(***************************************************************************)
SPECIFIC_QUESTIONS_RATIO == FDiv(6, 10)   \* the literal 0.6
EXCELLENT_THRESHOLD == 70
GOOD_THRESHOLD == 50

SPECIFIC_QUESTIONS == "questoesEspecificas.db"
GENERAL_QUESTIONS == "questoesGerais.db"

\* the four answer buttons, and the gabarito values a store row may carry
Letters == {"a", "b", "c", "d"}
StoredLabels == {"a", "b", "c", "d", "A", "B", "C", "D"}
\* the gabarito values of the rows in the stores of the session
\* specification: one that a button can match and one that none matches
SessionLabels == {"a", "B"}

\* A Question object.  src and id stand for the object's identity (which
\* load created it, from which row); the display texts are not modelled.
Question(path, row_id, gabarito) ==
    [src |-> path, id |-> row_id, gabarito |-> gabarito]

\* Bounds of the session specification
MaxPool == 1
MaxTotal == 2
\* inputs of one session other than plain clicks: a mouse button held down
\* when a modal window is opened, an answer button invoked through the
\* keyboard
MaxOddInputs == 1
\* Bounds of the function-level specifications
MaxPrepPool == 2
MaxPrepTotal == 4
MaxEvalTotal == 20

RECURSIVE SeqsUpTo(_, _)
\* all sequences over S of length at most n
SeqsUpTo(S, n) ==
    IF n = 0 THEN {<<>>}
    ELSE LET shorter == SeqsUpTo(S, n - 1)
         IN  shorter \cup {Append(s, x) : s \in {t \in shorter : Len(t) = n - 1}, x \in S}

\* A question store as the reader finds it: unreachable, without a usable
\* questoes table, or holding rows (of which only gabarito is modelled).
StoresOver(labels, n) ==
    {[status |-> "ok", rows |-> r] : r \in SeqsUpTo(labels, n)}
    \cup {[status |-> st, rows |-> <<>>] : st \in {"connect_error", "query_error"}}

\* number of rows a load of the store yields
PoolSize(store) == IF store.status = "ok" THEN Len(store.rows) ELSE 0

(***************************************************************************)
(* DatabaseManager.load_questions.  conn tells what became of the          *)
(* connection: "none" when connect itself raised, "closed" when            *)
(* conn.close() ran, "open" when the call returned without closing it.     *)
(***************************************************************************)
load_questions(database_path, store) ==
    CASE store.status = "connect_error" ->
           [questions |-> <<>>, conn |-> "none", showerror |-> TRUE]
      [] store.status = "query_error" ->
           [questions |-> <<>>, conn |-> "open", showerror |-> TRUE]
      [] OTHER ->
           [questions |-> [i \in 1..Len(store.rows) |->
                              Question(database_path, i, store.rows[i])],
            conn |-> "closed", showerror |-> FALSE]

\* random.shuffle: every rearrangement of the list is a possible outcome
Shuffles(s) ==
    {[i \in 1..Len(s) |-> s[p[i]]] : p \in Permutations(1..Len(s))}

\* Python's s[:n]
SliceTo(s, n) ==
    IF n >= 0 THEN SubSeq(s, 1, IF n < Len(s) THEN n ELSE Len(s))
    ELSE SubSeq(s, 1, IF Len(s) + n > 0 THEN Len(s) + n ELSE 0)

num_specific_of(total_questions) ==
    FTrunc(FMulNat(SPECIFIC_QUESTIONS_RATIO, total_questions))

\* Mutant: the general share taken as int(total * 0.4) instead of the
\* remainder total - num_specific.
num_general_of_ratio(total_questions) ==
    FTrunc(FMulNat(FDiv(4, 10), total_questions))

num_general_of(total_questions) ==
    total_questions - num_specific_of(total_questions)

\* Mutant: the second slice is taken from the specific list again.
select_questions_twice(specific_questions, general_questions, total_questions) ==
    SliceTo(specific_questions, num_specific_of(total_questions))
    \o SliceTo(specific_questions, num_general_of(total_questions))

\* Mutant: the shortfall of the specific pool is made up from the general
\* pool, so that the two slices add up to the requested total.
select_questions_refill(specific_questions, general_questions, total_questions) ==
    LET taken == SliceTo(specific_questions, num_specific_of(total_questions))
    IN  taken \o SliceTo(general_questions, total_questions - Len(taken))

\* specific_questions[:num_specific] + general_questions[:num_general]
select_questions(specific_questions, general_questions, total_questions) ==
    SliceTo(specific_questions, num_specific_of(total_questions))
    \o SliceTo(general_questions, num_general_of(total_questions))

(***************************************************************************)
(* QuestionManager.prepare_questions: the set of possible outcomes, one    *)
(* per outcome of the three shuffles.  specific_questions and              *)
(* general_questions are the two local lists as they stand at return       *)
(* (shuffled in place), selected is the returned list.                     *)
(***************************************************************************)
prepare_questions(specific_store, general_store, total_questions) ==
    LET ls == load_questions(SPECIFIC_QUESTIONS, specific_store)
        lg == load_questions(GENERAL_QUESTIONS, general_store)
    IN  UNION { UNION { { [specific_questions |-> s1,
                           general_questions |-> s2,
                           selected |-> sel,
                           conns |-> [specific |-> ls.conn, general |-> lg.conn]]
                         : sel \in Shuffles(select_questions(s1, s2, total_questions)) }
                      : s2 \in Shuffles(lg.questions) }
              : s1 \in Shuffles(ls.questions) }

\* Mutant: the thresholds are compared with > instead of >=.
evaluate_performance_strict(correct, total) ==
    IF total = 0
    THEN [raised |-> TRUE, percentage |-> FZero, level |-> "none"]
    ELSE LET percentage == FMulNat(FDiv(correct, total), 100)
             above(n) == FGeqNat(percentage, n)
                         /\ percentage # FMulNat(FDiv(n, 1), 1)
         IN  [raised |-> FALSE,
              percentage |-> percentage,
              level |-> IF above(EXCELLENT_THRESHOLD) THEN "excellent"
                        ELSE IF above(GOOD_THRESHOLD) THEN "good"
                        ELSE "needs_improvement"]

(***************************************************************************)
(* PerformanceEvaluator.evaluate_performance.  Division by zero raises.    *)
(***************************************************************************)
evaluate_performance(correct, total) ==
    IF total = 0
    THEN [raised |-> TRUE, percentage |-> FZero, level |-> "none"]
    ELSE LET percentage == FMulNat(FDiv(correct, total), 100)
         IN  [raised |-> FALSE,
              percentage |-> percentage,
              level |-> IF FGeqNat(percentage, EXCELLENT_THRESHOLD) THEN "excellent"
                        ELSE IF FGeqNat(percentage, GOOD_THRESHOLD) THEN "good"
                        ELSE "needs_improvement"]


(***************************************************************************)
(* State.                                                                  *)
(*   total_questions .. current_correct_answer: the QuizApplication fields *)
(*   root        the quiz window: "none", "alive" or "destroyed"           *)
(*   pc          what the program shows:                                   *)
(*                 "initial"   InitialScreen is shown, no session exists   *)
(*                 "question"  a question is shown                         *)
(*                 "result"    the final result window is shown (modal     *)
(*                             when it holds the grab)                     *)
(*                 "idle"      quiz window still up, session finished      *)
(*                 "closed"    quiz window destroyed                       *)
(*                 "call", "return": function-level specifications         *)
(*   dialog      the _answer_question calls suspended in                   *)
(*               result_dialog.show() (wait_window), outermost first: for  *)
(*               each its CustomResultDialog [is_correct, correct_answer]  *)
(*               (the answer given is only displayed and is not kept) and  *)
(*               whether that window is still open.  The                   *)
(*               waits are nested event loops, so only the last call of    *)
(*               the sequence can go on when its window is gone.           *)
(*   grab        the window that holds the grab: "dialog" (the result      *)
(*               dialog of the last suspended call), "result" (final       *)
(*               result window) or "none"                                  *)
(*   invokes     answers whose button was invoked through the keyboard     *)
(*               (Tk: <space> -> after 100 -> invoke) and whose timer has  *)
(*               not fired yet, oldest first                               *)
(*   performance level computed by _finish_quiz, "none" before             *)
(*   error       exception raised out of a handler, "none" if none         *)
(*   conns       what the two loads of the last prepare_questions did with *)
(*               their connections                                         *)
(*   submit_entry  current_index on entry to the latest _answer_question   *)
(*                 that passed its guard (-1 before any)                   *)
(*   accepted    number of _answer_question calls of the session that      *)
(*               passed the guard and tallied                              *)
(*   tallied     how many of them did so at the present current_index      *)
(*   odd_inputs  number of grab_set calls of the session that raised (a    *)
(*               mouse button was down) and of keyboard invocations        *)
(*   last_event  the handler that ran last                                 *)
(*   args, ret   inputs and result of the function-level specifications    *)
(***************************************************************************)
VARIABLES total_questions, questions, current_index, correct_answers,
          is_quiz_active, current_correct_answer, root, pc, dialog, grab,
          invokes, performance, error, conns, submit_entry, accepted,
          tallied, odd_inputs, last_event, args, ret

vars == <<total_questions, questions, current_index, correct_answers,
          is_quiz_active, current_correct_answer, root, pc, dialog, grab,
          invokes, performance, error, conns, submit_entry, accepted,
          tallied, odd_inputs, last_event, args, ret>>

session == <<total_questions, questions, current_index, correct_answers,
             is_quiz_active, current_correct_answer>>

NoConns == [specific |-> "none", general |-> "none"]

\* No QuizApplication object exists yet
NoSession ==
    /\ total_questions = 0
    /\ questions = <<>>
    /\ current_index = 0
    /\ correct_answers = 0
    /\ is_quiz_active = FALSE
    /\ current_correct_answer = "None"
    /\ root = "none"
    /\ dialog = <<>>
    /\ grab = "none"
    /\ invokes = <<>>
    /\ performance = "none"
    /\ error = "none"
    /\ conns = NoConns
    /\ submit_entry = -1
    /\ accepted = 0
    /\ tallied = 0
    /\ odd_inputs = 0

Init ==
    /\ NoSession
    /\ pc = "initial"
    /\ last_event = "run"
    /\ args = <<>>
    /\ ret = <<>>

\* The innermost suspended _answer_question waits for its dialog.
Waiting == dialog # <<>> /\ dialog[Len(dialog)].open

\* The window the innermost suspended _answer_question waits for is gone:
\* its wait_window returns before any further event is handled.
Unwinding == dialog # <<>> /\ ~dialog[Len(dialog)].open

\* Every dialog window is destroyed with the root
AllDestroyed(d) == [i \in DOMAIN d |-> [d[i] EXCEPT !.open = FALSE]]

\* Toplevel.grab_set() on a window created in the same handler, so not yet
\* mapped.  With no mouse button down Tk sets a local grab, which cannot
\* fail; with a button down it asks the X server for the pointer, which
\* refuses a window that is not viewable, and grab_set raises TclError.
\* Either way the grab another window of the program held is given up first.
GrabFails(button_down) == button_down

\* The grab as a handler finds it when the wait for a dialog has ended: the
\* grab of that dialog went with its window.
Released == IF grab = "dialog" THEN "none" ELSE grab

\* Mutant: _finish_quiz without `self.is_quiz_active = False`.
FinishQuiz_keeps_active(active, correct, qs, button_down) ==
    IF ~active
    THEN /\ is_quiz_active' = active
         /\ grab' = Released
         /\ UNCHANGED <<pc, performance, error, odd_inputs>>
    ELSE LET r == evaluate_performance(correct, Len(qs))
         IN  /\ is_quiz_active' = active
             /\ IF r.raised
                THEN /\ error' = "ZeroDivisionError"
                     /\ pc' = "idle"
                     /\ grab' = Released
                     /\ UNCHANGED <<performance, odd_inputs>>
                ELSE /\ performance' = r.level
                     /\ pc' = "result"
                     /\ IF GrabFails(button_down)
                        THEN /\ error' = "TclError"
                             /\ grab' = "none"
                             /\ odd_inputs' = odd_inputs + 1
                        ELSE /\ grab' = "result"
                             /\ UNCHANGED <<error, odd_inputs>>

(***************************************************************************)
(* QuizApplication._finish_quiz with _show_final_result, entered with the  *)
(* session state given.  The flag is cleared before the evaluation, so it  *)
(* stays cleared when evaluate_performance raises; that exception leaves   *)
(* the quiz window up with no result window.  When grab_set raises in      *)
(* _show_final_result the result window is left without grab, text and     *)
(* buttons.                                                                *)
(***************************************************************************)
FinishQuiz(active, correct, qs, button_down) ==
    IF ~active
    THEN /\ is_quiz_active' = active
         /\ grab' = Released
         /\ UNCHANGED <<pc, performance, error, odd_inputs>>
    ELSE LET r == evaluate_performance(correct, Len(qs))
         IN  /\ is_quiz_active' = FALSE
             /\ IF r.raised
                THEN /\ error' = "ZeroDivisionError"
                     /\ pc' = "idle"
                     /\ grab' = Released
                     /\ UNCHANGED <<performance, odd_inputs>>
                ELSE /\ performance' = r.level
                     /\ pc' = "result"
                     /\ IF GrabFails(button_down)
                        THEN /\ error' = "TclError"
                             /\ grab' = "none"
                             /\ odd_inputs' = odd_inputs + 1
                        ELSE /\ grab' = "result"
                             /\ UNCHANGED <<error, odd_inputs>>

(***************************************************************************)
(* QuizApplication._show_question at the given index.                      *)
(***************************************************************************)
ShowQuestion(active, index, correct, qs, button_down) ==
    IF ~active
    THEN /\ is_quiz_active' = active
         /\ grab' = Released
         /\ UNCHANGED <<pc, current_correct_answer, performance, error,
                        odd_inputs>>
    ELSE IF index >= Len(qs)
    THEN /\ FinishQuiz(active, correct, qs, button_down)
         /\ UNCHANGED current_correct_answer
    ELSE /\ current_correct_answer' = qs[index + 1].gabarito
         /\ is_quiz_active' = active
         /\ pc' = "question"
         /\ grab' = Released
         /\ UNCHANGED <<performance, error, odd_inputs>>

\* Mutant: _next_question without its is_quiz_active guard.
NextQuestion_unguarded(button_down) ==
    /\ current_index' = current_index + 1
    /\ tallied' = 0
    /\ IF is_quiz_active
       THEN ShowQuestion(is_quiz_active, current_index + 1, correct_answers,
                         questions, button_down)
       ELSE /\ grab' = Released
            /\ UNCHANGED <<pc, is_quiz_active, current_correct_answer,
                           performance, error, odd_inputs>>

(***************************************************************************)
(* QuizApplication._next_question.                                         *)
(***************************************************************************)
NextQuestion(button_down) ==
    IF ~is_quiz_active
    THEN /\ grab' = Released
         /\ UNCHANGED <<pc, current_index, is_quiz_active,
                        current_correct_answer, performance, error,
                        odd_inputs, tallied>>
    ELSE /\ current_index' = current_index + 1
         /\ tallied' = 0
         /\ ShowQuestion(is_quiz_active, current_index + 1, correct_answers,
                         questions, button_down)

(***************************************************************************)
(* InitialScreen._start_quiz: QuizApplication(total) is constructed, which *)
(* prepares the questions, builds the window and shows the first question. *)
(***************************************************************************)
StartQuiz(total, specific_store, general_store, button_down) ==
    /\ pc = "initial"
    /\ ~(total <= 0)
    /\ \E out \in prepare_questions(specific_store, general_store, total) :
         /\ total_questions' = total
         /\ current_index' = 0
         /\ correct_answers' = 0
         /\ questions' = out.selected
         /\ conns' = out.conns
         /\ root' = "alive"
         /\ ShowQuestion(TRUE, 0, 0, out.selected, button_down)
    /\ last_event' = "_start_quiz"
    /\ UNCHANGED <<dialog, invokes, submit_entry, accepted, tallied, args,
                   ret>>

\* Mutant: _answer_question without its is_quiz_active guard.
AnswerQuestion_unguarded(answer, button_down) ==
    /\ last_event' = "_answer_question"
    /\ LET is_correct == (answer = current_correct_answer)
       IN  /\ correct_answers' = IF is_correct THEN correct_answers + 1
                                               ELSE correct_answers
           /\ submit_entry' = current_index
           /\ accepted' = accepted + 1
           /\ tallied' = tallied + 1
           /\ IF GrabFails(button_down)
              THEN /\ error' = "TclError"
                   /\ grab' = "none"
                   /\ odd_inputs' = odd_inputs + 1
                   /\ UNCHANGED dialog
              ELSE /\ dialog' = Append(dialog,
                                       [is_correct |-> is_correct,
                                        correct_answer |-> current_correct_answer,
                                        open |-> TRUE])
                   /\ grab' = "dialog"
                   /\ UNCHANGED <<error, odd_inputs>>
    /\ UNCHANGED <<total_questions, questions, current_index, is_quiz_active,
                   current_correct_answer, root, pc, performance, conns,
                   args, ret>>

(***************************************************************************)
(* QuizApplication._answer_question up to the point where it waits for the *)
(* result dialog.  The tally is made before CustomResultDialog is built;   *)
(* when grab_set raises in _create_dialog the exception leaves the handler *)
(* with the tally made, no dialog waited for and _next_question not        *)
(* called: the same question stays on show (the empty Toplevel left behind *)
(* holds no grab and no handler refers to it).  Otherwise the call is      *)
(* suspended in wait_window, inside whatever call is suspended already.    *)
(***************************************************************************)
AnswerQuestion(answer, button_down) ==
    /\ last_event' = "_answer_question"
    /\ IF ~is_quiz_active
       THEN UNCHANGED <<correct_answers, dialog, grab, error,
                        submit_entry, accepted, tallied,
                        odd_inputs>>
       ELSE LET is_correct == (answer = current_correct_answer)
            IN  /\ correct_answers' = IF is_correct THEN correct_answers + 1
                                                    ELSE correct_answers
                /\ submit_entry' = current_index
                /\ accepted' = accepted + 1
                /\ tallied' = tallied + 1
                /\ IF GrabFails(button_down)
                   THEN /\ error' = "TclError"
                        /\ grab' = "none"
                        /\ odd_inputs' = odd_inputs + 1
                        /\ UNCHANGED dialog
                   ELSE /\ dialog' = Append(dialog,
                                            [is_correct |-> is_correct,
                                             correct_answer |-> current_correct_answer,
                                             open |-> TRUE])
                        /\ grab' = "dialog"
                        /\ UNCHANGED <<error, odd_inputs>>
    /\ UNCHANGED <<total_questions, questions, current_index, is_quiz_active,
                   current_correct_answer, root, pc, performance, conns,
                   args, ret>>

\* The answer buttons receive clicks and key presses when the quiz window is
\* up and no modal window (result dialog, final result window) holds the
\* grab.
ButtonsReachable ==
    /\ pc \in {"question", "idle", "result"}
    /\ grab = "none"
    /\ ~Unwinding

\* An answer button is clicked: its command runs at once.
ClickAnswer(answer, button_down) ==
    /\ ButtonsReachable
    /\ AnswerQuestion(answer, button_down)
    /\ UNCHANGED invokes

\* <space> is pressed on an answer button that has the focus: Tk shows the
\* button pressed and sets a timer of 100 ms that will invoke it.
KeyInvoke(answer) ==
    /\ ButtonsReachable
    /\ invokes' = Append(invokes, answer)
    /\ odd_inputs' = odd_inputs + 1
    /\ last_event' = "tk::ButtonInvoke"
    /\ UNCHANGED <<session, root, pc, dialog, grab, performance, error, conns,
                   submit_entry, accepted, tallied, args, ret>>

\* The timer of a keyboard invocation fires and invokes the button, whatever
\* holds the grab by then: timers run in every event loop, the wait_window
\* of a result dialog included.
TimerInvoke(button_down) ==
    /\ invokes # <<>>
    /\ root = "alive"
    /\ ~Unwinding
    /\ AnswerQuestion(Head(invokes), button_down)
    /\ invokes' = Tail(invokes)

(***************************************************************************)
(* The result dialog of the k-th suspended call is destroyed, by its       *)
(* button (_continue), which the pointer reaches when no other window      *)
(* holds the grab, or by its close box.  When it is the dialog of the      *)
(* innermost call, wait_window returns and that _answer_question goes on   *)
(* to _next_question.                                                      *)
(***************************************************************************)
DialogContinue(k, via, button_down) ==
    /\ k \in DOMAIN dialog
    /\ dialog[k].open
    /\ ~Unwinding
    /\ via = "button" => (grab = "none" \/ (grab = "dialog" /\ k = Len(dialog)))
    /\ last_event' = "_continue"
    /\ IF k = Len(dialog)
       THEN /\ dialog' = SubSeq(dialog, 1, k - 1)
            /\ NextQuestion(button_down)
       ELSE /\ dialog' = [dialog EXCEPT ![k].open = FALSE]
            /\ UNCHANGED <<current_index, is_quiz_active, current_correct_answer,
                           pc, grab, performance, error, odd_inputs, tallied>>
    /\ UNCHANGED <<total_questions, questions, correct_answers, root, conns,
                   invokes, submit_entry, accepted, args, ret>>

(***************************************************************************)
(* The window the innermost suspended call waits for was destroyed while   *)
(* it could not go on (with the root, or under a call nested in it):       *)
(* wait_window returns and the call goes on to _next_question.             *)
(***************************************************************************)
ResumeAnswer(button_down) ==
    /\ Unwinding
    /\ last_event' = "_next_question"
    /\ dialog' = SubSeq(dialog, 1, Len(dialog) - 1)
    /\ NextQuestion(button_down)
    /\ UNCHANGED <<total_questions, questions, correct_answers, root, conns,
                   invokes, submit_entry, accepted, args, ret>>

(***************************************************************************)
(* QuizApplication._close_quiz: the WM_DELETE_WINDOW handler of the quiz   *)
(* window, also callable on a session whose window is already gone.        *)
(* self.root is never reset, so `if self.root` always holds and destroy()  *)
(* is called again on a destroyed root, which raises TclError.             *)
(***************************************************************************)
CloseQuiz ==
    /\ pc \in {"question", "result", "idle", "closed"}
    /\ ~Unwinding
    /\ last_event' = "_close_quiz"
    /\ is_quiz_active' = FALSE
    /\ IF root = "alive"
       THEN /\ root' = "destroyed"
            /\ dialog' = AllDestroyed(dialog)
            /\ grab' = "none"
            /\ invokes' = <<>>
            /\ pc' = "closed"
            /\ UNCHANGED error
       ELSE /\ error' = "TclError"
            /\ UNCHANGED <<root, dialog, grab, invokes, pc>>
    /\ UNCHANGED <<total_questions, questions, current_index, correct_answers,
                   current_correct_answer, performance, conns, submit_entry,
                   accepted, tallied, odd_inputs, args, ret>>

(***************************************************************************)
(* QuizApplication._exit_application (button "Sair" of the result window,  *)
(* which exists when _show_final_result ran to its end).                   *)
(***************************************************************************)
ExitApplication ==
    /\ pc = "result"
    /\ grab = "result"
    /\ ~Unwinding
    /\ last_event' = "_exit_application"
    /\ is_quiz_active' = FALSE
    /\ root' = "destroyed"
    /\ dialog' = AllDestroyed(dialog)
    /\ grab' = "none"
    /\ invokes' = <<>>
    /\ pc' = "closed"
    /\ UNCHANGED <<total_questions, questions, current_index, correct_answers,
                   current_correct_answer, performance, error, conns,
                   submit_entry, accepted, tallied, odd_inputs, args, ret>>

(***************************************************************************)
(* QuizApplication._retry_quiz (button "Tentar Novamente" of the result    *)
(* window): closes the quiz and opens a new InitialScreen; the old session *)
(* is out of reach from then on (calls of it still suspended go on to a    *)
(* _next_question that returns at once, the session being finished).       *)
(***************************************************************************)
RetryQuiz ==
    /\ pc = "result"
    /\ grab = "result"
    /\ ~Unwinding
    /\ last_event' = "_retry_quiz"
    /\ total_questions' = 0
    /\ questions' = <<>>
    /\ current_index' = 0
    /\ correct_answers' = 0
    /\ is_quiz_active' = FALSE
    /\ current_correct_answer' = "None"
    /\ root' = "none"
    /\ dialog' = <<>>
    /\ grab' = "none"
    /\ invokes' = <<>>
    /\ performance' = "none"
    /\ error' = "none"
    /\ conns' = NoConns
    /\ submit_entry' = -1
    /\ accepted' = 0
    /\ tallied' = 0
    /\ odd_inputs' = 0
    /\ pc' = "initial"
    /\ UNCHANGED <<args, ret>>

(***************************************************************************)
(* The final result window is closed by its close box: no handler is       *)
(* registered for it, so it is just destroyed and the quiz window stays.   *)
(***************************************************************************)
DismissResult ==
    /\ pc = "result"
    /\ ~Unwinding
    /\ last_event' = "result_window.destroy"
    /\ pc' = "idle"
    /\ grab' = IF grab = "result" THEN "none" ELSE grab
    /\ UNCHANGED <<session, root, dialog, invokes, performance, error, conns,
                   submit_entry, accepted, tallied, odd_inputs, args, ret>>

Stores == StoresOver(SessionLabels, MaxPool)

\* The state of the mouse buttons when a handler runs: whatever the user
\* holds down at that moment, within the bound on such inputs.
ButtonStates == IF odd_inputs < MaxOddInputs THEN BOOLEAN ELSE {FALSE}

\* The start button is pressed on the InitialScreen, with whatever the two
\* stores hold at that moment.
StartQuizEvent ==
    /\ pc = "initial"
    /\ \E total \in 1..MaxTotal, s \in Stores, g \in Stores,
          button_down \in ButtonStates :
         StartQuiz(total, s, g, button_down)

Next ==
    \/ StartQuizEvent
    \/ \E answer \in Letters, button_down \in ButtonStates :
         ClickAnswer(answer, button_down)
    \/ \E answer \in Letters : odd_inputs < MaxOddInputs /\ KeyInvoke(answer)
    \/ \E button_down \in ButtonStates : TimerInvoke(button_down)
    \/ \E k \in DOMAIN dialog, via \in {"button", "closebox"},
          button_down \in ButtonStates :
         DialogContinue(k, via, button_down)
    \/ \E button_down \in ButtonStates : ResumeAnswer(button_down)
    \/ CloseQuiz
    \/ ExitApplication
    \/ RetryQuiz
    \/ DismissResult

Spec == Init /\ [][Next]_vars


(***************************************************************************)
(* Function-level specifications: the inputs are drawn in the initial      *)
(* state, the one action applies the function and records what it returns. *)
(***************************************************************************)
PrepLabels == {"a", "B"}
PrepStores == StoresOver(PrepLabels, MaxPrepPool)

InitPrepare ==
    /\ NoSession
    /\ pc = "call"
    /\ last_event = "prepare_questions"
    /\ args \in [specific : PrepStores, general : PrepStores, total : 1..MaxPrepTotal]
    /\ ret = <<>>

PrepareCall ==
    /\ pc = "call"
    /\ \E out \in prepare_questions(args.specific, args.general, args.total) :
         ret' = out
    /\ pc' = "return"
    /\ UNCHANGED <<session, root, dialog, grab, invokes, performance, error,
                   conns, submit_entry, accepted, tallied, odd_inputs,
                   last_event, args>>

SpecPrepare == InitPrepare /\ [][PrepareCall]_vars

InitEval ==
    /\ NoSession
    /\ pc = "call"
    /\ last_event = "evaluate_performance"
    /\ args \in {[correct |-> c, total |-> t] : c \in 0..MaxEvalTotal, t \in 0..MaxEvalTotal}
    /\ args.correct <= args.total
    /\ ret = <<>>

EvalCall ==
    /\ pc = "call"
    /\ ret' = evaluate_performance(args.correct, args.total)
    /\ pc' = "return"
    /\ UNCHANGED <<session, root, dialog, grab, invokes, performance, error,
                   conns, submit_entry, accepted, tallied, odd_inputs,
                   last_event, args>>

SpecEval == InitEval /\ [][EvalCall]_vars

(***************************************************************************)
(* The end-to-end scenario: a specific store with rows, but fewer than the *)
(* specific share of the request, a general store with rows enough to      *)
(* supply the whole rest of the request.  The stated sizes (3 rows, 100    *)
(* rows, 10 requested) are one such call; the calls drawn here are the     *)
(* ones of that shape whose shuffles can all be enumerated.                *)
(***************************************************************************)
MaxScenarioPool == 4
MaxScenarioTotal == 4

StoreOfSize(n) == [status |-> "ok", rows |-> [i \in 1..n |-> "a"]]

InitScenario ==
    /\ NoSession
    /\ pc = "call"
    /\ last_event = "prepare_questions"
    /\ args \in {[specific |-> StoreOfSize(S), general |-> StoreOfSize(G), total |-> N] :
                   S \in 1..MaxScenarioPool, G \in 1..MaxScenarioPool,
                   N \in 1..MaxScenarioTotal}
    /\ PoolSize(args.specific) < num_specific_of(args.total)
    /\ PoolSize(args.general) >= args.total - PoolSize(args.specific)
    /\ ret = <<>>

ScenarioCall ==
    /\ pc = "call"
    /\ \E out \in prepare_questions(args.specific, args.general, args.total) :
         ret' = out
    /\ pc' = "return"
    /\ UNCHANGED <<session, root, dialog, grab, invokes, performance, error,
                   conns, submit_entry, accepted, tallied, odd_inputs,
                   last_event, args>>

SpecScenario == InitScenario /\ [][ScenarioCall]_vars

(***************************************************************************)
(* _answer_question taken alone: a session started on one question, whose  *)
(* gabarito is any of the stored labels, and one click on an answer        *)
(* button.                                                                 *)
(***************************************************************************)
InitAnswer ==
    /\ \E gabarito \in StoredLabels :
         \E out \in prepare_questions([status |-> "ok", rows |-> <<>>],
                                      [status |-> "ok", rows |-> <<gabarito>>], 1) :
           /\ questions = out.selected
           /\ conns = out.conns
           /\ current_correct_answer = out.selected[1].gabarito
    /\ total_questions = 1
    /\ current_index = 0
    /\ correct_answers = 0
    /\ is_quiz_active = TRUE
    /\ root = "alive"
    /\ pc = "question"
    /\ dialog = <<>>
    /\ grab = "none"
    /\ invokes = <<>>
    /\ performance = "none"
    /\ error = "none"
    /\ submit_entry = -1
    /\ accepted = 0
    /\ tallied = 0
    /\ odd_inputs = 0
    /\ last_event = "_start_quiz"
    /\ args \in [answer : Letters, button_down : BOOLEAN]
    /\ ret = <<>>

AnswerCall ==
    /\ last_event = "_start_quiz"
    /\ ClickAnswer(args.answer, args.button_down)

SpecAnswer == InitAnswer /\ [][AnswerCall]_vars

\* The selection of the call with the stated sizes, when the two shuffles
\* leave each list in the order it was loaded in.
StatedSelection ==
    select_questions(load_questions(SPECIFIC_QUESTIONS, StoreOfSize(3)).questions,
                     load_questions(GENERAL_QUESTIONS, StoreOfSize(100)).questions,
                     10)


(***************************************************************************)
(* Properties.                                                             *)
(***************************************************************************)
\* a step in which an _answer_question call was suspended in its dialog
Suspends == Len(dialog') = Len(dialog) + 1
\* a step in which the innermost suspended _answer_question call went on
Resumes ==
    /\ Len(dialog') = Len(dialog) - 1
    /\ last_event' \in {"_continue", "_next_question"}

Range(q) == {q[i] : i \in DOMAIN q}
SeqBag(q) == [x \in Range(q) |-> Cardinality({i \in DOMAIN q : q[i] = x})]
Min(a, b) == IF a <= b THEN a ELSE b
CountFrom(q, path) == Cardinality({i \in DOMAIN q : q[i].src = path})
Lower(l) ==
    CASE l = "A" -> "a" [] l = "B" -> "b" [] l = "C" -> "c" [] l = "D" -> "d"
      [] OTHER -> l

\* C1: for every total N > 0 and pool sizes S, G the returned sequence holds
\* exactly min(floor(0.6 N), S) specific and min(N - floor(0.6 N), G) general
\* questions; its length is at most N, and N when both pools are large enough.
C1_SelectionCounts ==
    pc = "return" =>
      LET N == args.total
          S == PoolSize(args.specific)
          G == PoolSize(args.general)
          quota == (6 * N) \div 10
      IN  /\ CountFrom(ret.selected, SPECIFIC_QUESTIONS) = Min(quota, S)
          /\ CountFrom(ret.selected, GENERAL_QUESTIONS) = Min(N - quota, G)
          /\ Len(ret.selected) <= N
          /\ (S >= quota /\ G >= N - quota) => Len(ret.selected) = N

\* a call that truncated the specific slice and filled the general one
C1_Witness ==
    /\ pc = "return"
    /\ args.total = 4
    /\ PoolSize(args.specific) = 1
    /\ PoolSize(args.general) = 2
    /\ CountFrom(ret.selected, SPECIFIC_QUESTIONS) = 1
    /\ CountFrom(ret.selected, GENERAL_QUESTIONS) = 2

\* C2: once the session is finished (is_quiz_active false), a further
\* _answer_question or _next_question (the one at the end of a suspended
\* _answer_question included) leaves correct_answers and current_index as
\* they were.
C2_FinishedIsFrozen ==
    [][(~is_quiz_active
        /\ (last_event' \in {"_answer_question", "_next_question"} \/ Resumes))
         => (correct_answers' = correct_answers /\ current_index' = current_index)]_vars

\* an answer button was pressed on a session that had run to its end
C2_Witness ==
    /\ ~is_quiz_active
    /\ last_event = "_answer_question"
    /\ pc = "idle"
    /\ Len(questions) > 0
    /\ current_index = Len(questions)

\* C3: with an empty selected sequence the session started by __init__
\* finishes without raising and the evaluation yields the fallback result
\* (lowest tier).
C3_EmptyQuizFinishes ==
    (last_event = "_start_quiz" /\ Len(questions) = 0)
      => (~is_quiz_active /\ error = "none" /\ performance = "needs_improvement")

\* C4: for total > 0 and 0 <= c <= total the level is excellent exactly when
\* 100 c >= 70 total, good exactly when 50 total <= 100 c < 70 total, and
\* needs_improvement exactly when 100 c < 50 total.
C4_Tiers ==
    (pc = "return" /\ args.total > 0) =>
      LET c == args.correct
          t == args.total
      IN  /\ ~ret.raised
          /\ (ret.level = "excellent") <=> (100 * c >= 70 * t)
          /\ (ret.level = "good") <=> (50 * t <= 100 * c /\ 100 * c < 70 * t)
          /\ (ret.level = "needs_improvement") <=> (100 * c < 50 * t)

\* 7 of 10 was evaluated as excellent
C4_Witness ==
    /\ pc = "return"
    /\ args = [correct |-> 7, total |-> 10]
    /\ ret.level = "excellent"

\* C5 as stated: when a submit (_answer_question) has completed,
\* current_index has the value it had before the submit.
C5_SubmitKeepsIndex ==
    (submit_entry >= 0 /\ dialog = <<>>) => current_index = submit_entry

\* C5 amended: _answer_question leaves current_index alone while it tallies
\* and while it waits for its result dialog, and advances it itself when
\* that wait ends: on a session still active the call then adds exactly one
\* to current_index.  The call leaves current_index as it was only when its
\* dialog could not be opened (grab_set raised) or when the session was
\* finished by the time its wait ended.
C5_SubmitAdvancesOnDismissal ==
    [][/\ Suspends
            => (current_index' = current_index /\ submit_entry' = current_index)
       /\ (last_event' = "_answer_question" /\ ~Suspends)
            => (current_index' = current_index
                /\ (is_quiz_active => error' = "TclError"))
       /\ (Resumes /\ is_quiz_active)
            => current_index' = current_index + 1
       /\ (Resumes /\ ~is_quiz_active)
            => current_index' = current_index]_vars

\* the first submit has completed and the second question is shown
C5_Witness ==
    /\ pc = "question"
    /\ dialog = <<>>
    /\ last_event = "_continue"
    /\ submit_entry = 0
    /\ current_index = 1

\* C6: a submit on an active session judges the answer correct, and adds
\* exactly one to correct_answers, if and only if the answer and the stored
\* gabarito are the same letter ignoring case; otherwise the tally is
\* unchanged.
C6_CaseInsensitiveMatch ==
    last_event = "_answer_question" =>
      LET same == Lower(args.answer) = Lower(current_correct_answer)
      IN  /\ correct_answers = IF same THEN 1 ELSE 0
          /\ dialog # <<>> => (dialog[1].is_correct <=> same)

\* C7: every returned question comes from exactly one of the two loaded
\* pools, the sequence is a rearrangement of a prefix of the shuffled
\* specific pool followed by a prefix of the shuffled general pool, and no
\* question occurs more often in it than in its pool.
C7_SelectionFromPools ==
    pc = "return" =>
      LET ls == load_questions(SPECIFIC_QUESTIONS, args.specific).questions
          lg == load_questions(GENERAL_QUESTIONS, args.general).questions
          s1 == ret.specific_questions
          s2 == ret.general_questions
      IN  /\ SeqBag(s1) = SeqBag(ls)
          /\ SeqBag(s2) = SeqBag(lg)
          /\ \A q \in Range(ret.selected) :
               (q \in Range(ls)) # (q \in Range(lg))
          /\ \E k1 \in 0..Len(s1), k2 \in 0..Len(s2) :
               SeqBag(ret.selected) = SeqBag(SubSeq(s1, 1, k1) \o SubSeq(s2, 1, k2))
          /\ SeqBag(ret.selected) \sqsubseteq (SeqBag(ls) (+) SeqBag(lg))

\* a call that returned questions of both pools, leaving one specific out
C7_Witness ==
    /\ pc = "return"
    /\ PoolSize(args.specific) = 2
    /\ CountFrom(ret.selected, SPECIFIC_QUESTIONS) = 1
    /\ CountFrom(ret.selected, GENERAL_QUESTIONS) = 1

\* C8: a call of _close_quiz on a session on which nothing has failed leaves
\* the session finished with position and tally unchanged and does not
\* fail, a second call included.
C8_CloseIsIdempotent ==
    [][(last_event' = "_close_quiz" /\ error = "none")
         => /\ ~is_quiz_active'
            /\ current_index' = current_index
            /\ correct_answers' = correct_answers
            /\ error' = "none"]_vars

\* C9: on an active session _next_question adds exactly one to
\* current_index; the session is finished by that step if and only if the
\* new index equals the number of questions, and otherwise shows the
\* question at the new index.  Whenever a question is displayed on an active
\* session, 0 <= current_index < Len(questions).
C9_Advance ==
    /\ [][(Resumes /\ is_quiz_active) =>
            /\ current_index' = current_index + 1
            /\ ~is_quiz_active' <=> (current_index' = Len(questions))
            /\ is_quiz_active' =>
                 /\ pc' = "question"
                 /\ current_correct_answer' = questions[current_index' + 1].gabarito]_vars
    /\ [](is_quiz_active =>
            /\ pc = "question"
            /\ 0 <= current_index
            /\ current_index < Len(questions)
            /\ current_correct_answer = questions[current_index + 1].gabarito)

\* an advance that left the session active at the next question
C9_Witness ==
    /\ is_quiz_active
    /\ pc = "question"
    /\ dialog = <<>>
    /\ last_event = "_continue"
    /\ current_index = 1
    /\ Len(questions) = 2

\* C10: no connection opened by a load_questions call is still open when
\* the call has returned, whether the read succeeded or the query failed.
C10_ConnectionsReleased ==
    pc = "return" =>
      /\ ret.conns.specific # "open"
      /\ ret.conns.general # "open"


\* C11 as stated: when the specific pool is smaller than its share of the
\* request and the general pool can supply the rest (3 and 100 rows for a
\* request of 10), the call selects every specific question and makes the
\* number up from the general pool (3 specific and 7 general).
C11_ThreeAndSeven ==
    pc = "return" =>
      /\ CountFrom(ret.selected, SPECIFIC_QUESTIONS) = PoolSize(args.specific)
      /\ CountFrom(ret.selected, GENERAL_QUESTIONS)
           = args.total - PoolSize(args.specific)
      /\ CountFrom(StatedSelection, SPECIFIC_QUESTIONS) = 3
      /\ CountFrom(StatedSelection, GENERAL_QUESTIONS) = 7

\* C11 amended: the call selects every specific question and only the
\* general share N - floor(0.6 N) of the request, fewer than N in all; the
\* shortfall of the specific pool is not made up from the general pool.
\* For 3 and 100 rows and a request of 10: 3 specific and 4 general, 7 in all.
C11_ThreeAndFour ==
    pc = "return" =>
      LET N == args.total
          S == PoolSize(args.specific)
      IN  /\ CountFrom(ret.selected, SPECIFIC_QUESTIONS) = S
          /\ CountFrom(ret.selected, GENERAL_QUESTIONS) = N - (6 * N) \div 10
          /\ Len(ret.selected) = S + N - (6 * N) \div 10
          /\ Len(ret.selected) < N
          /\ CountFrom(StatedSelection, SPECIFIC_QUESTIONS) = 3
          /\ CountFrom(StatedSelection, GENERAL_QUESTIONS) = 4
          /\ Len(StatedSelection) = 7

\* a call of the scenario's shape has returned a list shorter than requested
C11_Witness ==
    /\ pc = "return"
    /\ PoolSize(args.specific) = 1
    /\ PoolSize(args.general) = 4
    /\ args.total = 4
    /\ CountFrom(ret.selected, SPECIFIC_QUESTIONS) = 1
    /\ CountFrom(ret.selected, GENERAL_QUESTIONS) = 2
    /\ ret.selected # select_questions(
           load_questions(SPECIFIC_QUESTIONS, args.specific).questions,
           load_questions(GENERAL_QUESTIONS, args.general).questions, args.total)


\* C12: each question is tallied at most once.  In every reachable state
\* 0 <= correct_answers <= Len(questions), correct_answers does not exceed
\* the number of submits accepted so far, no value of current_index has more
\* than one accepted submit, and the final percentage lies within 0..100.
C12_TalliedAtMostOnce ==
    /\ 0 <= correct_answers
    /\ correct_answers <= Len(questions)
    /\ correct_answers <= accepted
    /\ tallied <= 1
    /\ tallied > 0 => (0 <= current_index /\ current_index < Len(questions))
    /\ pc = "result" =>
         LET p == evaluate_performance(correct_answers, Len(questions)).percentage
         IN  FGeqNat(p, 0) /\ ~FGeqNat(p, 101)

====
